---- MODULE Spec2Model ----
(***************************************************************************)
(* NumericInput.vue: a numeric text field with live digit grouping,        *)
(* decimal truncation and max / maxLength limits.                          *)
(*                                                                         *)
(* Strings are sequences of one-character strings.  A JavaScript number    *)
(* or null is a record [kind, int, frac]: kind is "null", "NaN" or "num";  *)
(* for "num" the value is int + 0.frac, with frac a digit sequence that    *)
(* has no trailing zero (the canonical form Number() and toString() give). *)
(***************************************************************************)
EXTENDS Integers, Sequences, FiniteSets, TLC

\* ------------------------------------------------------------ bounds

\* Longest raw text of an input event made of the digit 1 and the dot.
MaxLen == 4
\* Longest raw text of an input event over the full alphabet.
MaxNoisyLen == 2

\* ------------------------------------------------------- characters

DigitSeq == <<"0", "1", "2", "3", "4", "5", "6", "7", "8", "9">>

Digits == {DigitSeq[i] : i \in 1..10}

IsDigit(c) == c \in Digits

DigitVal(c) == (CHOOSE i \in 1..10 : DigitSeq[i] = c) - 1

\* \s of the regular expressions: the model's only white space is " ".
IsSpace(c) == c = " "

\* \w of the regular expressions, over the characters the model uses.
IsWordChar(c) == IsDigit(c) \/ c \in {"a", "_"}

\* ---------------------------------------------------------- strings

RECURSIVE Concat(_)
Concat(ss) == IF ss = <<>> THEN <<>> ELSE Head(ss) \o Concat(Tail(ss))

IsNotSpace(c) == ~IsSpace(c)

IsNotDot(c) == c # "."

IsDigitOrDot(c) == IsDigit(c) \/ c = "."

\* s.replace(/\s/g, '')
StripSpaces(s) == SelectSeq(s, IsNotSpace)

\* s.replace(/,/g, '.')
CommaToDot(s) == [i \in 1..Len(s) |-> IF s[i] = "," THEN "." ELSE s[i]]

\* replace(/\./g, '') without the g flag: only the first dot goes.
StripFirstDot(s) ==
  IF \E i \in 1..Len(s) : s[i] = "."
  THEN LET k == CHOOSE i \in 1..Len(s) : s[i] = "." /\ \A j \in 1..(i - 1) : s[j] # "."
       IN SubSeq(s, 1, k - 1) \o SubSeq(s, k + 1, Len(s))
  ELSE s

\* s.replace(/\./g, '')
StripDots(s) == SelectSeq(s, IsNotDot)

\* indexOf('.') written as lastIndexOf('.').
LastDotIndex(s) ==
  IF \E i \in 1..Len(s) : s[i] = "."
  THEN CHOOSE i \in 1..Len(s) : s[i] = "." /\ \A j \in (i + 1)..Len(s) : s[j] # "."
  ELSE 0

\* s.indexOf('.') + 1: the 1-based index of the first dot, 0 when none.
DotIndex(s) ==
  IF \E i \in 1..Len(s) : s[i] = "."
  THEN CHOOSE i \in 1..Len(s) : s[i] = "." /\ \A j \in 1..(i - 1) : s[j] # "."
  ELSE 0

\* s.slice(0, n) for n >= 0
Take(s, n) == SubSeq(s, 1, IF n < Len(s) THEN n ELSE Len(s))

\* s.slice(n) for n >= 0
Drop(s, n) == SubSeq(s, n + 1, Len(s))

\* s.includes('.')
IncludesDot(s) == \E i \in 1..Len(s) : s[i] = "."

\* endsWith('.') written as includes('.').
EndsWithDotAnywhere(s) == IncludesDot(s)

EndsWithDot(s) == Len(s) > 0 /\ s[Len(s)] = "."

\* ---------------------------------------------------------- numbers

Null == [kind |-> "null", int |-> 0, frac |-> <<>>]

NaN == [kind |-> "NaN", int |-> 0, frac |-> <<>>]

Num(i, f) == [kind |-> "num", int |-> i, frac |-> f]

RECURSIVE DigitsToNat(_)
DigitsToNat(s) ==
  IF s = <<>> THEN 0
  ELSE 10 * DigitsToNat(SubSeq(s, 1, Len(s) - 1)) + DigitVal(s[Len(s)])

RECURSIVE TrimTrailingZeros(_)
TrimTrailingZeros(s) ==
  IF s # <<>> /\ s[Len(s)] = "0"
  THEN TrimTrailingZeros(SubSeq(s, 1, Len(s) - 1))
  ELSE s

RECURSIVE NatToDigits(_)
NatToDigits(n) ==
  IF n < 10 THEN <<DigitSeq[n + 1]>>
  ELSE NatToDigits(n \div 10) \o <<DigitSeq[(n % 10) + 1]>>

\* Number(s) of JavaScript on a string: "" is 0, a string of digits with at
\* most one dot and at least one digit is its decimal value, all else NaN.
JSNumber(s) ==
  LET d == DotIndex(s)
      ip == IF d = 0 THEN s ELSE Take(s, d - 1)
      fp == IF d = 0 THEN <<>> ELSE Drop(s, d)
  IN IF s = <<>> THEN Num(0, <<>>)
     ELSE IF (\A i \in 1..Len(ip) : IsDigit(ip[i]))
             /\ (\A i \in 1..Len(fp) : IsDigit(fp[i]))
             /\ Len(ip) + Len(fp) > 0
          THEN Num(DigitsToNat(ip), TrimTrailingZeros(fp))
          ELSE NaN

\* Number.isFinite(n)
IsFinite(n) == n.kind = "num"

\* n.toString() of a non-negative number below 1e21 and not below 1e-6.
NumToString(n) ==
  NatToDigits(n.int) \o (IF n.frac = <<>> THEN <<>> ELSE <<".">> \o n.frac)

\* n > m comparing the integer parts only.
GreaterThanIntOnly(n, m) == n.int > m

\* n > m for a number n and a natural m
GreaterThan(n, m) == n.int > m \/ (n.int = m /\ n.frac # <<>>)

\* --------------------------------------------------- configurations

\* The values the bound model value takes from outside: null, a fraction,
\* and a value that renders with a grouping space.
ExternalValues == {Null, Num(1, <<"5">>), Num(1000, <<>>)}

\* props.max, when configured.
MaxChoices == {11}

\* props.maxLength, when configured.
MaxLengthChoices == {1, 2}

\* props.maxDecimals: 2 is the default (withDefaults).
MaxDecimalsChoices == {1, 2}

\* The property sets a behaviour starts from.  A property that is not
\* configured (undefined) has its ...Defined field FALSE.
Configurations ==
  { c \in [type : {"integer", "decimal"},
           disabled : BOOLEAN,
           maxDefined : BOOLEAN,
           max : MaxChoices,
           maxLengthDefined : BOOLEAN,
           maxLength : MaxLengthChoices,
           maxDecimals : MaxDecimalsChoices] :
      /\ c.maxDecimals # 2 => (c.type = "decimal" /\ ~c.maxDefined /\ ~c.maxLengthDefined)
      /\ c.maxLength # 2 => (c.maxDefined /\ c.maxLengthDefined)
      /\ (c.maxDefined /\ c.maxLengthDefined) => c.type = "integer" }

\* ------------------------------------------------------ input texts

RECURSIVE StringsUpTo(_, _)
StringsUpTo(alphabet, n) ==
  IF n = 0 THEN {<<>>}
  ELSE LET shorter == StringsUpTo(alphabet, n - 1)
       IN shorter \cup {Append(s, c) : s \in shorter, c \in alphabet}

CleanAlphabet == {"1", "."}

NoisyAlphabet == {"0", "1", ".", ",", " "}

\* The texts input.value holds when an input event arrives.
RawInputs == StringsUpTo(CleanAlphabet, MaxLen) \cup StringsUpTo(NoisyAlphabet, MaxNoisyLen)

\* allowedKeys with Tab forgotten.
AllowedKeysNoTab == {"Backspace", "Delete", "ArrowLeft", "ArrowRight", "Home", "End"}

AllowedKeys == {"Backspace", "Delete", "ArrowLeft", "ArrowRight", "Tab", "Home", "End"}

\* event.key of the keydown events: the always-allowed keys, a digit, both
\* separators and a letter.
Keys == {"Backspace", "Delete", "ArrowLeft", "ArrowRight", "Tab", "Home", "End",
         "1", ".", ",", "a"}

\* ------------------------------------------------------------ state

VARIABLES
  props,        \* the component's properties, modelValue included
  displayValue, \* ref displayValue
  isFocused,    \* ref isFocused
  hasError,     \* ref hasError
  inputText,    \* the input element's value
  selection,    \* the input element's caret (setSelectionRange)
  widthRaf,     \* the handle of the last animation-frame request
  frames,       \* handles of the animation-frame requests still pending
  ticks,        \* nextTick callbacks not yet run, oldest first
  checkpoint,   \* a handler has run and its microtask checkpoint has not
  phase,        \* "setup", "mounted" or "unmounted"
  lastEvent,    \* the handler that ran last, with its input
  before,       \* displayValue, hasError and isFocused as that handler found them
  emitted,      \* the update:modelValue payloads that handler emitted
  prevented     \* whether that handler called event.preventDefault()

vars == <<props, displayValue, isFocused, hasError, inputText, selection, widthRaf,
          frames, ticks, checkpoint, phase, lastEvent, before, emitted, prevented>>

\* ------------------------------------------------- pure operations

\* The length of the run of digits of s that starts at index k.
RECURSIVE DigitRun(_, _)
DigitRun(s, k) == IF k <= Len(s) /\ IsDigit(s[k]) THEN 1 + DigitRun(s, k + 1) ELSE 0

\* str.replace(/\B(?=(\d{3})+(?!\d))/g, ' '): a space goes between s[k] and
\* s[k+1] when both are word characters and the digits from s[k+1] on, up to
\* the first non-digit, are a positive multiple of three.
\* formatWithSpaces without the \B of its pattern: a group of three at the
\* very start of the text gets a space before it too.
FormatWithSpacesNoB(str) ==
  LET after(k) ==
        /\ k < Len(str)
        /\ DigitRun(str, k + 1) >= 3
        /\ DigitRun(str, k + 1) % 3 = 0
  IN (IF after(0) THEN <<" ">> ELSE <<>>)
     \o Concat([k \in 1..Len(str) |-> IF after(k) THEN <<str[k], " ">> ELSE <<str[k]>>])

FormatWithSpaces(str) ==
  LET after(k) ==
        /\ k < Len(str)
        /\ IsWordChar(str[k])
        /\ DigitRun(str, k + 1) >= 3
        /\ DigitRun(str, k + 1) % 3 = 0
  IN Concat([k \in 1..Len(str) |-> IF after(k) THEN <<str[k], " ">> ELSE <<str[k]>>])

LimitType ==
  IF props.maxDefined THEN "max"
  ELSE IF props.maxLengthDefined THEN "maxLength"
  ELSE "none"

\* formatNumber with the grouping of the integer part forgotten.
FormatNumberUngrouped(value) == IF value.kind = "null" THEN <<>> ELSE NumToString(value)

FormatNumber(value) ==
  IF value.kind = "null" THEN <<>>
  ELSE LET str == NumToString(value)
           d == DotIndex(str)
           intPartRaw == IF d = 0 THEN str ELSE Take(str, d - 1)
           formattedInt == FormatWithSpaces(intPartRaw)
       IN IF d # 0 THEN formattedInt \o <<".">> \o Drop(str, d) ELSE formattedInt

ParseDisplay(s) ==
  LET v == CommaToDot(StripSpaces(s))
  IN IF v = <<>> \/ v = <<".">> THEN Null
     ELSE LET n == JSNumber(v) IN IF IsFinite(n) THEN n ELSE Null

GetDigitCount(str) == Len(SelectSeq(str, IsDigit))

\* sanitize parsing the text as it is before the decimals are cut.
SanitizeParsesUncut(raw) ==
  LET stripped == SelectSeq(CommaToDot(raw), IsDigitOrDot)
      dotIndex == DotIndex(stripped)
      uncut ==
        IF props.type = "integer" THEN StripDots(stripped)
        ELSE IF dotIndex # 0
             THEN Take(stripped, dotIndex - 1) \o <<".">> \o StripDots(Drop(stripped, dotIndex))
             ELSE stripped
      cleaned ==
        IF props.type = "decimal" /\ dotIndex # 0
        THEN Take(uncut, dotIndex + props.maxDecimals)
        ELSE uncut
      n == JSNumber(uncut)
      numericValue ==
        IF cleaned # <<>> /\ cleaned # <<".">>
        THEN (IF IsFinite(n) THEN n ELSE Null)
        ELSE Null
  IN [cleaned |-> cleaned, numericValue |-> numericValue]

\* sanitize keeping one decimal too many.
SanitizeOneDecimalMore(raw) ==
  LET stripped == SelectSeq(CommaToDot(raw), IsDigitOrDot)
      dotIndex == DotIndex(stripped)
      cleaned ==
        IF props.type = "integer" THEN StripDots(stripped)
        ELSE IF dotIndex # 0
             THEN LET beforeDot == Take(stripped, dotIndex - 1)
                      afterDotRaw == StripDots(Drop(stripped, dotIndex))
                      afterDot == Take(afterDotRaw, props.maxDecimals + 1)
                  IN beforeDot \o <<".">> \o afterDot
             ELSE stripped
      n == JSNumber(cleaned)
      numericValue ==
        IF cleaned # <<>> /\ cleaned # <<".">>
        THEN (IF IsFinite(n) THEN n ELSE Null)
        ELSE Null
  IN [cleaned |-> cleaned, numericValue |-> numericValue]

Sanitize(raw) ==
  LET stripped == SelectSeq(CommaToDot(raw), IsDigitOrDot)
      dotIndex == DotIndex(stripped)
      cleaned ==
        IF props.type = "integer" THEN StripDots(stripped)
        ELSE IF dotIndex # 0
             THEN LET beforeDot == Take(stripped, dotIndex - 1)
                      afterDotRaw == StripDots(Drop(stripped, dotIndex))
                      afterDot == Take(afterDotRaw, props.maxDecimals)
                  IN beforeDot \o <<".">> \o afterDot
             ELSE stripped
      n == JSNumber(cleaned)
      numericValue ==
        IF cleaned # <<>> /\ cleaned # <<".">>
        THEN (IF IsFinite(n) THEN n ELSE Null)
        ELSE Null
  IN [cleaned |-> cleaned, numericValue |-> numericValue]

\* formatFromCleaned losing a trailing bare separator.
FormatFromCleanedDropsBareDot(cleaned) ==
  IF cleaned = <<>> THEN <<>>
  ELSE LET dotIndex == DotIndex(cleaned)
           hasDot == dotIndex # 0
           intPartRaw == IF hasDot THEN Take(cleaned, dotIndex - 1) ELSE cleaned
           decPart == IF hasDot THEN Drop(cleaned, dotIndex) ELSE <<>>
           formattedInt == FormatWithSpaces(intPartRaw)
       IN IF hasDot /\ decPart # <<>> THEN formattedInt \o <<".">> \o decPart ELSE formattedInt

FormatFromCleaned(cleaned) ==
  IF cleaned = <<>> THEN <<>>
  ELSE LET dotIndex == DotIndex(cleaned)
           hasDot == dotIndex # 0
           intPartRaw == IF hasDot THEN Take(cleaned, dotIndex - 1) ELSE cleaned
           decPart == IF hasDot THEN Drop(cleaned, dotIndex) ELSE <<>>
           formattedInt == FormatWithSpaces(intPartRaw)
       IN IF hasDot THEN formattedInt \o <<".">> \o decPart ELSE formattedInt

\* checkLimit with >= for >: a value equal to max, or a text of exactly
\* maxLength digits, is rejected.
CheckLimitInclusive(cleaned, numericValue) ==
  IF LimitType = "max" /\ props.maxDefined
  THEN numericValue.kind # "null"
       /\ (GreaterThan(numericValue, props.max) \/ numericValue = Num(props.max, <<>>))
  ELSE IF LimitType = "maxLength" /\ props.maxLengthDefined
       THEN GetDigitCount(cleaned) >= props.maxLength
       ELSE FALSE

\* checkLimit with the max branch lost: only maxLength is enforced.
CheckLimitLengthOnly(cleaned, numericValue) ==
  IF props.maxLengthDefined /\ ~props.maxDefined
  THEN GetDigitCount(cleaned) > props.maxLength
  ELSE FALSE

CheckLimit(cleaned, numericValue) ==
  IF LimitType = "max" /\ props.maxDefined
  THEN numericValue.kind # "null" /\ GreaterThan(numericValue, props.max)
  ELSE IF LimitType = "maxLength" /\ props.maxLengthDefined
       THEN GetDigitCount(cleaned) > props.maxLength
       ELSE FALSE

\* ------------------------------------------------------ scheduling

\* requestAnimationFrame's result: a handle no pending request has.
NewHandle(pending) == CHOOSE h \in 1..(Cardinality(pending) + 1) : h \notin pending

\* scheduleWidthUpdate on the pair (widthRaf, frames): cancel the request
\* widthRaf names, then request a frame and keep its handle.
ScheduleWidthUpdate(raf, pending) ==
  LET rest == pending \ {raf}
      h == NewHandle(rest)
  IN [widthRaf |-> h, frames |-> rest \cup {h}]

\* The caret loop counting the grouping spaces as characters.
RECURSIVE CaretScanCountsSpaces(_, _, _, _, _)
CaretScanCountsSpaces(newFormatted, i, charCount, charsBeforeCursor, newCursorPos) ==
  IF i <= Len(newFormatted) /\ charCount < charsBeforeCursor
  THEN CaretScanCountsSpaces(newFormatted, i + 1, charCount + 1, charsBeforeCursor, i)
  ELSE newCursorPos

\* The caret loop of the nextTick callback of onInput.
RECURSIVE CaretScan(_, _, _, _, _)
CaretScan(newFormatted, i, charCount, charsBeforeCursor, newCursorPos) ==
  IF i <= Len(newFormatted) /\ charCount < charsBeforeCursor
  THEN CaretScan(newFormatted, i + 1,
                 IF newFormatted[i] # " " THEN charCount + 1 ELSE charCount,
                 charsBeforeCursor, i)
  ELSE newCursorPos

\* The offset the nextTick callback of onInput passes to setSelectionRange.
NewCursorPos(oldFormatted, cursorPos, newFormatted) ==
  LET oldSpacesBefore == Len(SelectSeq(Take(oldFormatted, cursorPos), IsSpace))
      charsBeforeCursor == cursorPos - oldSpacesBefore
  IN CaretScan(newFormatted, 1, 0, charsBeforeCursor, 0)

CaretTick(oldFormatted, cursorPos) ==
  [kind |-> "caret", oldFormatted |-> oldFormatted, cursorPos |-> cursorPos]

MountedTick == [kind |-> "mounted", oldFormatted |-> <<>>, cursorPos |-> 0]

\* The nextTick callbacks with the caret loop scanning the text the edit
\* found, not the text it produced.
RECURSIVE RunTicksScansOld(_, _)
RunTicksScansOld(queue, st) ==
  IF queue = <<>> THEN st
  ELSE LET t == Head(queue)
           next ==
             IF t.kind = "caret"
             THEN (IF phase # "mounted" THEN st
                   ELSE [st EXCEPT !.selection =
                           NewCursorPos(t.oldFormatted, t.cursorPos, t.oldFormatted)])
             ELSE LET w == ScheduleWidthUpdate(st.widthRaf, st.frames)
                  IN [st EXCEPT !.widthRaf = w.widthRaf, !.frames = w.frames]
       IN RunTicksScansOld(Tail(queue), next)

\* Running the pending nextTick callbacks, oldest first, from the state
\* st = [selection, widthRaf, frames].
RECURSIVE RunTicks(_, _)
RunTicks(queue, st) ==
  IF queue = <<>> THEN st
  ELSE LET t == Head(queue)
           next ==
             IF t.kind = "caret"
             THEN (IF phase # "mounted" THEN st
                   ELSE [st EXCEPT !.selection =
                           NewCursorPos(t.oldFormatted, t.cursorPos, displayValue)])
             ELSE LET w == ScheduleWidthUpdate(st.widthRaf, st.frames)
                  IN [st EXCEPT !.widthRaf = w.widthRaf, !.frames = w.frames]
       IN RunTicks(Tail(queue), next)

\* The event loop runs a microtask checkpoint (the scheduler's flush, the
\* nextTick callbacks) after every handler, before it dispatches another event.
MicrotaskPending == checkpoint \/ ticks # <<>>

Event(kind, raw, cursorPos, key, ctrl) ==
  [kind |-> kind, raw |-> raw, cursorPos |-> cursorPos, key |-> key, ctrl |-> ctrl]

NoEvent(kind) == Event(kind, <<>>, 0, "", FALSE)

Snapshot == [displayValue |-> displayValue, hasError |-> hasError, isFocused |-> isFocused]

\* ------------------------------------------------------------ init

Init ==
  /\ \E c \in Configurations, v \in ExternalValues :
       props = [modelValue |-> v, type |-> c.type, disabled |-> c.disabled,
                maxDefined |-> c.maxDefined, max |-> c.max,
                maxLengthDefined |-> c.maxLengthDefined, maxLength |-> c.maxLength,
                maxDecimals |-> c.maxDecimals]
  /\ displayValue = FormatNumber(props.modelValue)
  /\ isFocused = FALSE
  /\ hasError = FALSE
  /\ inputText = <<>>
  /\ selection = 0
  /\ widthRaf = 0
  /\ frames = {}
  /\ ticks = <<>>
  /\ checkpoint = FALSE
  /\ phase = "setup"
  /\ lastEvent = NoEvent("setup")
  /\ before = Snapshot
  /\ emitted = <<>>
  /\ prevented = FALSE

\* --------------------------------------------------------- actions

\* The component is mounted: the template is rendered and onMounted runs
\* up to its await nextTick().
Mount ==
  /\ phase = "setup"
  /\ phase' = "mounted"
  /\ inputText' = displayValue
  /\ selection' = Len(displayValue)
  /\ ticks' = Append(ticks, MountedTick)
  /\ checkpoint' = TRUE
  /\ lastEvent' = NoEvent("mount")
  /\ before' = Snapshot
  /\ emitted' = <<>>
  /\ prevented' = FALSE
  /\ UNCHANGED <<props, displayValue, isFocused, hasError, widthRaf, frames>>

\* onUnmounted; the template's refs become null.
Unmount ==
  /\ phase = "mounted"
  /\ phase' = "unmounted"
  /\ frames' = frames \ {widthRaf}
  /\ lastEvent' = NoEvent("unmount")
  /\ before' = Snapshot
  /\ emitted' = <<>>
  /\ prevented' = FALSE
  /\ UNCHANGED <<props, displayValue, isFocused, hasError, inputText, selection, widthRaf,
                 ticks, checkpoint>>

\* The browser gives focus to an enabled element only.
OnFocus ==
  /\ phase = "mounted" /\ ~MicrotaskPending
  /\ ~isFocused /\ ~props.disabled
  /\ isFocused' = TRUE
  /\ checkpoint' = TRUE
  /\ lastEvent' = NoEvent("focus")
  /\ before' = Snapshot
  /\ emitted' = <<>>
  /\ prevented' = FALSE
  /\ UNCHANGED <<props, displayValue, hasError, inputText, selection, widthRaf, frames,
                 ticks, phase>>

\* onBlur without hasError.value = false.
OnBlurKeepsError ==
  /\ phase = "mounted" /\ ~MicrotaskPending
  /\ isFocused
  /\ isFocused' = FALSE
  /\ IF EndsWithDot(displayValue)
     THEN LET w == ScheduleWidthUpdate(widthRaf, frames)
          IN /\ displayValue' = Take(displayValue, Len(displayValue) - 1)
             /\ widthRaf' = w.widthRaf
             /\ frames' = w.frames
     ELSE UNCHANGED <<displayValue, widthRaf, frames>>
  /\ checkpoint' = TRUE
  /\ lastEvent' = NoEvent("blur")
  /\ before' = Snapshot
  /\ emitted' = <<>>
  /\ prevented' = FALSE
  /\ UNCHANGED <<props, hasError, inputText, selection, ticks, phase>>

OnBlur ==
  /\ phase = "mounted" /\ ~MicrotaskPending
  /\ isFocused
  /\ isFocused' = FALSE
  /\ hasError' = FALSE
  /\ IF EndsWithDot(displayValue)
     THEN LET w == ScheduleWidthUpdate(widthRaf, frames)
          IN /\ displayValue' = Take(displayValue, Len(displayValue) - 1)
             /\ widthRaf' = w.widthRaf
             /\ frames' = w.frames
     ELSE UNCHANGED <<displayValue, widthRaf, frames>>
  /\ checkpoint' = TRUE
  /\ lastEvent' = NoEvent("blur")
  /\ before' = Snapshot
  /\ emitted' = <<>>
  /\ prevented' = FALSE
  /\ UNCHANGED <<props, inputText, selection, ticks, phase>>

\* onInput without its first line, the return of a disabled field.
OnInputIgnoresDisabled(raw, cursorPos) ==
  /\ phase = "mounted" /\ ~MicrotaskPending
  /\ isFocused
  /\ lastEvent' = Event("input", raw, cursorPos, "", FALSE)
  /\ before' = Snapshot
  /\ prevented' = FALSE
  /\ checkpoint' = TRUE
  /\ LET oldFormatted == displayValue
         s == Sanitize(raw)
     IN IF CheckLimit(s.cleaned, s.numericValue)
        THEN /\ hasError' = TRUE
             /\ inputText' = displayValue
             /\ selection' = Len(displayValue)
             /\ emitted' = <<>>
             /\ UNCHANGED <<displayValue, widthRaf, frames, ticks>>
        ELSE LET w == ScheduleWidthUpdate(widthRaf, frames)
             IN /\ hasError' = FALSE
                /\ displayValue' = FormatFromCleaned(s.cleaned)
                /\ emitted' = <<s.numericValue>>
                /\ widthRaf' = w.widthRaf
                /\ frames' = w.frames
                /\ ticks' = Append(ticks, CaretTick(oldFormatted, cursorPos))
                /\ inputText' = raw
                /\ selection' = cursorPos
  /\ UNCHANGED <<props, isFocused, phase>>

\* An input event: the browser has put raw in the element, the caret at
\* cursorPos, and calls onInput.
OnInput(raw, cursorPos) ==
  /\ phase = "mounted" /\ ~MicrotaskPending
  /\ isFocused
  /\ lastEvent' = Event("input", raw, cursorPos, "", FALSE)
  /\ before' = Snapshot
  /\ prevented' = FALSE
  /\ checkpoint' = TRUE
  /\ IF props.disabled
     THEN /\ inputText' = raw
          /\ selection' = cursorPos
          /\ emitted' = <<>>
          /\ UNCHANGED <<displayValue, hasError, widthRaf, frames, ticks>>
     ELSE LET oldFormatted == displayValue
              s == Sanitize(raw)
          IN IF CheckLimit(s.cleaned, s.numericValue)
             THEN /\ hasError' = TRUE
                  /\ inputText' = displayValue
                  /\ selection' = Len(displayValue)
                  /\ emitted' = <<>>
                  /\ UNCHANGED <<displayValue, widthRaf, frames, ticks>>
             ELSE LET w == ScheduleWidthUpdate(widthRaf, frames)
                  IN /\ hasError' = FALSE
                     /\ displayValue' = FormatFromCleaned(s.cleaned)
                     /\ emitted' = <<s.numericValue>>
                     /\ widthRaf' = w.widthRaf
                     /\ frames' = w.frames
                     /\ ticks' = Append(ticks, CaretTick(oldFormatted, cursorPos))
                     /\ inputText' = raw
                     /\ selection' = cursorPos
  /\ UNCHANGED <<props, isFocused, phase>>

OnKeyDown(key, ctrl) ==
  /\ phase = "mounted" /\ ~MicrotaskPending
  /\ isFocused
  /\ lastEvent' = Event("keydown", <<>>, 0, key, ctrl)
  /\ before' = Snapshot
  /\ emitted' = <<>>
  /\ checkpoint' = TRUE
  /\ IF props.disabled
     THEN prevented' = TRUE /\ UNCHANGED hasError
     ELSE IF key \in AllowedKeys
     THEN prevented' = FALSE /\ hasError' = FALSE
     ELSE IF ctrl
     THEN prevented' = FALSE /\ UNCHANGED hasError
     ELSE IF props.type = "decimal" /\ key \in {".", ","}
     THEN prevented' = IncludesDot(displayValue)
          /\ UNCHANGED hasError
     ELSE IF props.type = "integer" /\ key \in {".", ","}
     THEN prevented' = TRUE /\ UNCHANGED hasError
     ELSE prevented' = ~IsDigit(key) /\ UNCHANGED hasError
  /\ UNCHANGED <<props, displayValue, isFocused, inputText, selection, widthRaf, frames,
                 ticks, phase>>

\* The parent changes modelValue and the watcher runs.
ModelValueChange(newValue) ==
  /\ phase = "mounted" /\ ~MicrotaskPending
  /\ newValue # props.modelValue
  /\ props' = [props EXCEPT !.modelValue = newValue]
  /\ IF isFocused
     THEN UNCHANGED <<displayValue, widthRaf, frames>>
     ELSE LET parsed == ParseDisplay(displayValue)
          IN IF newValue # parsed
             THEN LET w == ScheduleWidthUpdate(widthRaf, frames)
                  IN /\ displayValue' = FormatNumber(newValue)
                     /\ widthRaf' = w.widthRaf
                     /\ frames' = w.frames
             ELSE UNCHANGED <<displayValue, widthRaf, frames>>
  /\ lastEvent' = NoEvent("modelValue")
  /\ before' = Snapshot
  /\ emitted' = <<>>
  /\ prevented' = FALSE
  /\ checkpoint' = TRUE
  /\ UNCHANGED <<isFocused, hasError, inputText, selection, ticks, phase>>

\* The parent changes the disabled property, which the template binds.
\* A field disabled while it has focus gets no blur event from it.
DisabledChange(newValue) ==
  /\ phase = "mounted" /\ ~MicrotaskPending
  /\ newValue # props.disabled
  /\ props' = [props EXCEPT !.disabled = newValue]
  /\ checkpoint' = TRUE
  /\ lastEvent' = NoEvent("disabled")
  /\ before' = Snapshot
  /\ emitted' = <<>>
  /\ prevented' = FALSE
  /\ UNCHANGED <<displayValue, isFocused, hasError, inputText, selection, widthRaf, frames,
                 ticks, phase>>

\* The microtask checkpoint: the re-render writes displayValue to the
\* element (:value="displayValue"), which moves the caret to the end of a
\* text it changes, then the nextTick callbacks run.
Flush ==
  /\ MicrotaskPending
  /\ LET patched == phase = "mounted" /\ inputText # displayValue
         st == RunTicks(ticks, [selection |-> IF patched THEN Len(displayValue) ELSE selection,
                                widthRaf |-> widthRaf, frames |-> frames])
     IN /\ inputText' = IF patched THEN displayValue ELSE inputText
        /\ selection' = st.selection
        /\ widthRaf' = st.widthRaf
        /\ frames' = st.frames
  /\ ticks' = <<>>
  /\ checkpoint' = FALSE
  /\ lastEvent' = NoEvent("flush")
  /\ before' = Snapshot
  /\ emitted' = <<>>
  /\ prevented' = FALSE
  /\ UNCHANGED <<props, displayValue, isFocused, hasError, phase>>

\* An animation frame: the pending request h runs its callback, which
\* returns when measureRef is null and else measures the text and sets
\* inputWidth.
Frame(h) ==
  /\ ~MicrotaskPending
  /\ h \in frames
  /\ frames' = frames \ {h}
  /\ lastEvent' = NoEvent("frame")
  /\ before' = Snapshot
  /\ emitted' = <<>>
  /\ prevented' = FALSE
  /\ UNCHANGED <<props, displayValue, isFocused, hasError, inputText, selection, widthRaf,
                 ticks, checkpoint, phase>>

Input == \E raw \in RawInputs : OnInput(raw, Len(raw))

KeyDown == \E key \in Keys, ctrl \in BOOLEAN : OnKeyDown(key, ctrl)

ExternalChange == \E v \in ExternalValues : ModelValueChange(v)

ExternalDisable == \E b \in BOOLEAN : DisabledChange(b)

AnimationFrame == \E h \in frames : Frame(h)

Next ==
  \/ Mount
  \/ Unmount
  \/ OnFocus
  \/ OnBlur
  \/ Input
  \/ KeyDown
  \/ ExternalChange
  \/ ExternalDisable
  \/ Flush
  \/ AnimationFrame

Spec == Init /\ [][Next]_vars

\* ------------------------------------------------- typing at the caret

\* The user types the digits 1 .. MaxDigit and the dot.
MaxDigit == 7

TypingChars == {DigitSeq[i + 1] : i \in 1..MaxDigit} \cup {"."}

\* The keys the user presses: the characters and the two deleting keys.
TypingKeys == TypingChars \cup {"Backspace", "Delete"}

\* The texts the user produces by typing have their digits in ascending
\* order: a digit is typed only where it keeps them so.
InOrder(s) ==
  LET d == SelectSeq(s, IsDigit)
  IN \A i \in 1..(Len(d) - 1) : DigitVal(d[i]) < DigitVal(d[i + 1])

\* The element's text after the browser inserts c at offset p.
InsertAt(s, p, c) == SubSeq(s, 1, p) \o <<c>> \o SubSeq(s, p + 1, Len(s))

\* The element's text after the browser removes its p-th character.
RemoveAt(s, p) == SubSeq(s, 1, p - 1) \o SubSeq(s, p + 1, Len(s))

\* The nextTick callbacks run on the rendered text shown.
RECURSIVE RunTicksOn(_, _, _)
RunTicksOn(queue, st, shown) ==
  IF queue = <<>> THEN st
  ELSE LET t == Head(queue)
           next ==
             IF t.kind = "caret"
             THEN (IF phase # "mounted" THEN st
                   ELSE [st EXCEPT !.selection =
                           NewCursorPos(t.oldFormatted, t.cursorPos, shown)])
             ELSE LET w == ScheduleWidthUpdate(st.widthRaf, st.frames)
                  IN [st EXCEPT !.widthRaf = w.widthRaf, !.frames = w.frames]
       IN RunTicksOn(Tail(queue), next, shown)

\* The user presses a key: the keydown handler runs.
PressKey(keys) == \E key \in keys : OnKeyDown(key, FALSE)

\* The default action of a keydown that was not prevented: the browser
\* edits the element's text at the caret, which the user has put at offset
\* p, and fires the input event.
KeyInput ==
  /\ lastEvent.kind = "keydown" /\ ~prevented
  /\ \E p \in 0..Len(inputText) :
       LET key == lastEvent.key
       IN \/ /\ (IsDigit(key) \/ key = ".")
             /\ InOrder(InsertAt(inputText, p, key))
             /\ OnInput(InsertAt(inputText, p, key), p + 1)
          \/ /\ key = "Backspace" /\ p >= 1
             /\ OnInput(RemoveAt(inputText, p), p - 1)
          \/ /\ key = "Delete" /\ p < Len(inputText)
             /\ OnInput(RemoveAt(inputText, p + 1), p)

\* ------------------------------------------------- the demo's rows

HOURS_PER_DAY == 24

MAX_DECIMALS_HOURS == 2

MAX_DECIMALS_DAYS == 4

\* hoursBase as the demo creates it.
HoursBaseInit == 7

\* The user of the demo types the digits 1 .. MaxDemoDigit and the dot.
MaxDemoDigit == 4

DemoKeys == {DigitSeq[i + 1] : i \in 1..MaxDemoDigit} \cup {".", "Backspace", "Delete"}

RECURSIVE Pow10(_)
Pow10(k) == IF k = 0 THEN 1 ELSE 10 * Pow10(k - 1)

\* Math.round(a / b) for naturals a and b > 0: halves go up.
RoundDiv(a, b) == (2 * a + b) \div (2 * b)

\* The first k digits of the fraction f, zeros added when it is shorter.
FractionDigits(f, k) == [i \in 1..k |-> IF i <= Len(f) THEN f[i] ELSE "0"]

\* A natural below 10^k as k digits.
PadDigits(n, k) == [i \in 1..k |-> DigitSeq[((n \div Pow10(k - i)) % 10) + 1]]

\* The hours row's v-model: the set accessor, roundTo(v, MAX_DECIMALS_HOURS),
\* puts the emitted value into hoursBase, here in units of
\* 10^-MAX_DECIMALS_HOURS hours, and the get accessor gives hoursBase back.
\* v has at most MAX_DECIMALS_DAYS decimals.
HoursSet(v) ==
  LET scale == Pow10(MAX_DECIMALS_DAYS - MAX_DECIMALS_HOURS)
      f == DigitsToNat(FractionDigits(v.frac, MAX_DECIMALS_DAYS))
  IN v.int * Pow10(MAX_DECIMALS_HOURS) + RoundDiv(f, scale)

HoursGet(h) ==
  Num(h \div Pow10(MAX_DECIMALS_HOURS),
      TrimTrailingZeros(PadDigits(h % Pow10(MAX_DECIMALS_HOURS), MAX_DECIMALS_HOURS)))

HoursEcho(v) == IF v.kind = "null" THEN Null ELSE HoursGet(HoursSet(v))

\* The set accessor of days, roundTo(v * HOURS_PER_DAY, MAX_DECIMALS_HOURS),
\* as hoursBase in units of 10^-MAX_DECIMALS_HOURS hours.  v has at most
\* MAX_DECIMALS_DAYS decimals; the arithmetic is that of exact decimals.
DaysSet(v) ==
  LET scale == Pow10(MAX_DECIMALS_DAYS - MAX_DECIMALS_HOURS)
      f == DigitsToNat(FractionDigits(v.frac, MAX_DECIMALS_DAYS))
  IN v.int * HOURS_PER_DAY * Pow10(MAX_DECIMALS_HOURS) + RoundDiv(f * HOURS_PER_DAY, scale)

\* The get accessor of days, roundTo(hoursBase / HOURS_PER_DAY,
\* MAX_DECIMALS_DAYS), for hoursBase = h * 10^-MAX_DECIMALS_HOURS.
DaysGet(h) ==
  LET scale == Pow10(MAX_DECIMALS_DAYS - MAX_DECIMALS_HOURS)
      q == h \div HOURS_PER_DAY
      r == h % HOURS_PER_DAY
      m == q * scale + RoundDiv(r * scale, HOURS_PER_DAY)
  IN Num(m \div Pow10(MAX_DECIMALS_DAYS),
         TrimTrailingZeros(PadDigits(m % Pow10(MAX_DECIMALS_DAYS), MAX_DECIMALS_DAYS)))

\* The days row's v-model: the emitted value goes through the set accessor
\* into hoursBase and comes back through the get accessor.
DaysEcho(v) == IF v.kind = "null" THEN Null ELSE DaysGet(DaysSet(v))

\* models[row.key].value after the field emitted v.
RowEcho(key, v) == IF key = "hours" THEN HoursEcho(v) ELSE DaysEcho(v)

\* The microtask checkpoint of a field bound with v-model: the parent's
\* re-render passes the row's model, set to the emitted value, as modelValue, the watcher of
\* modelValue runs, the field's re-render writes displayValue to the
\* element, which moves the caret to the end of a text it changes, and the
\* nextTick callbacks run.
VModelFlush(key) ==
  /\ MicrotaskPending
  /\ LET newValue == IF emitted = <<>> THEN props.modelValue ELSE RowEcho(key, emitted[1])
         synced ==
           /\ phase = "mounted" /\ newValue # props.modelValue
           /\ ~isFocused
           /\ newValue # ParseDisplay(displayValue)
         shown == IF synced THEN FormatNumber(newValue) ELSE displayValue
         w == IF synced THEN ScheduleWidthUpdate(widthRaf, frames)
              ELSE [widthRaf |-> widthRaf, frames |-> frames]
         patched == phase = "mounted" /\ inputText # shown
         st == RunTicksOn(ticks, [selection |-> IF patched THEN Len(shown) ELSE selection,
                                  widthRaf |-> w.widthRaf, frames |-> w.frames], shown)
     IN /\ props' = [props EXCEPT !.modelValue = newValue]
        /\ displayValue' = shown
        /\ inputText' = IF patched THEN shown ELSE inputText
        /\ selection' = st.selection
        /\ widthRaf' = st.widthRaf
        /\ frames' = st.frames
  /\ ticks' = <<>>
  /\ checkpoint' = FALSE
  /\ UNCHANGED <<isFocused, hasError, phase, lastEvent, before, emitted, prevented>>

\* The values the field is created with: none, and one above the limits.
TypingValues == {Null, Num(1000, <<>>)}

TypingInit ==
  /\ Init
  /\ ~props.disabled
  /\ props.maxDecimals = 2
  /\ props.maxLength = 2
  /\ props.modelValue \in TypingValues

TypingNext ==
  \/ Mount
  \/ OnFocus
  \/ OnBlur
  \/ PressKey(TypingKeys)
  \/ KeyInput
  \/ VModelFlush("hours")
  \/ AnimationFrame

\* The field bound as the demo's hours row binds it, created with and
\* without limits, the user typing at the caret.
TypingSpec == TypingInit /\ [][TypingNext]_vars

\* The field of the days row as the demo creates it.
DemoInit ==
  /\ props = [modelValue |-> DaysGet(HoursBaseInit * Pow10(MAX_DECIMALS_HOURS)),
              type |-> "decimal", disabled |-> FALSE,
              maxDefined |-> FALSE, max |-> 11,
              maxLengthDefined |-> FALSE, maxLength |-> 2,
              maxDecimals |-> MAX_DECIMALS_DAYS]
  /\ displayValue = FormatNumber(props.modelValue)
  /\ isFocused = FALSE
  /\ hasError = FALSE
  /\ inputText = <<>>
  /\ selection = 0
  /\ widthRaf = 0
  /\ frames = {}
  /\ ticks = <<>>
  /\ checkpoint = FALSE
  /\ phase = "setup"
  /\ lastEvent = NoEvent("setup")
  /\ before = Snapshot
  /\ emitted = <<>>
  /\ prevented = FALSE

DemoNext ==
  \/ Mount
  \/ OnFocus
  \/ OnBlur
  \/ PressKey(DemoKeys)
  \/ KeyInput
  \/ VModelFlush("days")
  \/ AnimationFrame

\* The days row of the demo page, the user typing at the caret.
DemoSpec == DemoInit /\ [][DemoNext]_vars

\* ----------------------------------------------------------- claims

\* The input event the last handler was given, sanitized.
LastSanitized == Sanitize(lastEvent.raw)

\* The limit of section 4.3 on a sanitized text: with max configured, the
\* numeric value is non-null and strictly greater than max; else with
\* maxLength configured, cleaned has more than maxLength digits.
ViolatesLimit(s) ==
  IF props.maxDefined
  THEN s.numericValue.kind = "num"
       /\ (s.numericValue.int > props.max
           \/ (s.numericValue.int = props.max /\ s.numericValue.frac # <<>>))
  ELSE IF props.maxLengthDefined
       THEN Cardinality({i \in 1..Len(s.cleaned) : s.cleaned[i] \in Digits}) > props.maxLength
       ELSE FALSE

LastInput == lastEvent.kind = "input"

LastKeyDown == lastEvent.kind = "keydown"

\* C1 as stated: every input event emits update:modelValue exactly once when
\* its sanitized result does not violate the limit, and never when it does.
C1_EmitOncePerAcceptedInput ==
  LastInput => Len(emitted) = (IF ViolatesLimit(LastSanitized) THEN 0 ELSE 1)

\* C1 amended: every input event to a field that is not disabled emits
\* update:modelValue exactly once when its sanitized result does not violate
\* the limit, and never when it does.
C1_EmitOncePerAcceptedInputEnabled ==
  (LastInput /\ ~props.disabled) =>
    Len(emitted) = (IF ViolatesLimit(LastSanitized) THEN 0 ELSE 1)

\* An enabled field with a limit accepted an edit and emitted once.
C1_Witness ==
  /\ LastInput /\ ~props.disabled /\ LimitType # "none"
  /\ ~ViolatesLimit(LastSanitized)
  /\ lastEvent.raw # <<>>
  /\ Len(emitted) = 1

\* C2 as stated: an input event whose sanitized result violates the limit
\* leaves displayValue as it was, writes that text to the input element and
\* sets the error flag.
C2_RejectedEditRollsBack ==
  (LastInput /\ ViolatesLimit(LastSanitized)) =>
    /\ displayValue = before.displayValue
    /\ inputText = before.displayValue
    /\ hasError

\* C2 amended: in a field that is not disabled, an input event whose
\* sanitized result violates the limit leaves displayValue as it was, writes
\* that text to the input element and sets the error flag.
C2_RejectedEditRollsBackEnabled ==
  (LastInput /\ ~props.disabled /\ ViolatesLimit(LastSanitized)) =>
    /\ displayValue = before.displayValue
    /\ inputText = before.displayValue
    /\ hasError

\* An enabled field showing a text rejected an edit to another text.
C2_Witness ==
  /\ LastInput /\ ~props.disabled /\ ViolatesLimit(LastSanitized)
  /\ before.displayValue # <<>>
  /\ ~before.hasError
  /\ hasError
  /\ inputText = before.displayValue
  /\ lastEvent.raw # before.displayValue

C3_AlwaysAllowedKeys == {"Backspace", "Delete", "ArrowLeft", "ArrowRight", "Tab", "Home", "End"}

\* C3 as stated: an input event that does not violate the limit, a keydown
\* of an always-allowed key and a blur each leave the error flag clear, and a
\* raised error flag is cleared by no other event.
C3_ErrorCleared ==
  LET clearing ==
        \/ LastInput /\ ~ViolatesLimit(LastSanitized)
        \/ LastKeyDown /\ lastEvent.key \in C3_AlwaysAllowedKeys
        \/ lastEvent.kind = "blur"
  IN /\ clearing => ~hasError
     /\ (before.hasError /\ ~hasError) => clearing

\* C3 amended: in a field that is not disabled, an input event that does not
\* violate the limit and a keydown of an always-allowed key each leave the
\* error flag clear, as does a blur; a raised error flag is cleared by no
\* other event, and by no input event or keydown of a disabled field.
C3_ErrorClearedEnabled ==
  LET clearing ==
        \/ LastInput /\ ~props.disabled /\ ~ViolatesLimit(LastSanitized)
        \/ LastKeyDown /\ ~props.disabled /\ lastEvent.key \in C3_AlwaysAllowedKeys
        \/ lastEvent.kind = "blur"
  IN /\ clearing => ~hasError
     /\ (before.hasError /\ ~hasError) => clearing

\* The Tab key cleared a raised error flag and changed nothing else.
C3_Witness ==
  /\ LastKeyDown /\ lastEvent.key = "Tab"
  /\ before.hasError /\ ~hasError
  /\ displayValue = before.displayValue

\* The text section 4.2 gives for the values the parent sets.
C4_Rendering(v) ==
  CASE v = Null -> <<>>
    [] v = Num(1, <<"5">>) -> <<"1", ".", "5">>
    [] v = Num(1000, <<>>) -> <<"1", " ", "0", "0", "0">>

\* C4: a change of modelValue while the field is blurred sets displayValue
\* to the grouped rendering of the new value, unless the new value is the
\* number parsed from the display; while the field is focused it leaves
\* displayValue, hasError and isFocused as they were.
C4_ExternalValueSync ==
  lastEvent.kind = "modelValue" =>
    IF before.isFocused
    THEN /\ displayValue = before.displayValue
         /\ hasError = before.hasError
         /\ isFocused = before.isFocused
    ELSE IF props.modelValue = ParseDisplay(before.displayValue)
         THEN displayValue = before.displayValue
         ELSE displayValue = C4_Rendering(props.modelValue)

\* A blurred field showing another text was set to 1000 and shows "1 000".
C4_Witness ==
  /\ lastEvent.kind = "modelValue"
  /\ ~before.isFocused
  /\ before.displayValue # <<>>
  /\ props.modelValue = Num(1000, <<>>)
  /\ displayValue = <<"1", " ", "0", "0", "0">>

\* C5: a blur removes a trailing bare separator from displayValue and
\* otherwise leaves displayValue as it was; it emits no update:modelValue,
\* and the number parsed from displayValue is the same before and after.
C5_BlurStripsSeparator ==
  lastEvent.kind = "blur" =>
    LET old == before.displayValue
        dangling == old # <<>> /\ old[Len(old)] = "."
    IN /\ displayValue = (IF dangling THEN SubSeq(old, 1, Len(old) - 1) ELSE old)
       /\ emitted = <<>>
       /\ ParseDisplay(displayValue) = ParseDisplay(old)

\* A field showing "11." was blurred and shows "11".
C5_Witness ==
  /\ lastEvent.kind = "blur"
  /\ before.displayValue = <<"1", "1", ".">>
  /\ displayValue = <<"1", "1">>

\* The last handler was onInput and took the edit: the field is enabled and
\* the sanitized text is within the limit.
LastAccepted == LastInput /\ ~props.disabled /\ ~ViolatesLimit(LastSanitized)

RECURSIVE C7_Grouped(_)
C7_Grouped(ds) ==
  IF Len(ds) <= 3 THEN ds
  ELSE C7_Grouped(SubSeq(ds, 1, Len(ds) - 3)) \o <<" ">> \o SubSeq(ds, Len(ds) - 2, Len(ds))

\* The number of characters of s before its first dot (all of s without one).
C7_IntLen(s) ==
  IF \E i \in 1..Len(s) : s[i] = "."
  THEN (CHOOSE i \in 1..Len(s) : s[i] = "." /\ \A j \in 1..(i - 1) : s[j] # ".") - 1
  ELSE Len(s)

C7_WithoutSpaces(s) == SelectSeq(s, LAMBDA ch : ch # " ")

\* C7: the display an accepted edit produces is its cleaned text with the
\* integer part grouped by threes from the right and the part from the first
\* '.' on unchanged, and removing the spaces from it gives cleaned back.
C7_FormatRoundTrips ==
  LastAccepted =>
    LET c == LastSanitized.cleaned
        n == C7_IntLen(c)
    IN /\ displayValue = C7_Grouped(SubSeq(c, 1, n)) \o SubSeq(c, n + 1, Len(c))
       /\ C7_WithoutSpaces(displayValue) = c

\* An accepted edit of four digits is shown as "1 111".
C7_Witness ==
  /\ LastAccepted
  /\ LastSanitized.cleaned = <<"1", "1", "1", "1">>
  /\ displayValue = <<"1", " ", "1", "1", "1">>

\* The number of characters of s after its first dot (0 without one).
C8_FractionLen(s) == IF C7_IntLen(s) = Len(s) THEN 0 ELSE Len(s) - C7_IntLen(s) - 1

\* C8: in a decimal field the cleaned text of every input event has at most
\* maxDecimals characters after its separator, and so has the display an
\* accepted edit produces.
C8_DecimalsTruncated ==
  (LastInput /\ props.type = "decimal") =>
    /\ C8_FractionLen(LastSanitized.cleaned) <= props.maxDecimals
    /\ LastAccepted => C8_FractionLen(displayValue) <= props.maxDecimals

\* An accepted edit with more decimals than maxDecimals is shown cut to
\* maxDecimals decimals.
C8_Witness ==
  /\ LastAccepted /\ props.type = "decimal"
  /\ C8_FractionLen(SelectSeq(lastEvent.raw, IsDigitOrDot)) > props.maxDecimals
  /\ C8_FractionLen(displayValue) = props.maxDecimals

\* The texts t with the character c inserted at offset i, for i in offsets.
C9_Insertions(t, c, offsets) ==
  {SubSeq(t, 1, i) \o <<c>> \o SubSeq(t, i + 1, Len(t)) : i \in offsets}

\* The last handler was onInput, in a decimal field whose text had a
\* separator, and the raw text is that text with a '.' or ',' inserted at
\* one of the offsets.
C9_SecondSeparator(offsets) ==
  /\ LastInput /\ props.type = "decimal"
  /\ C7_IntLen(before.displayValue) < Len(before.displayValue)
  /\ lastEvent.raw \in C9_Insertions(before.displayValue, ".", offsets)
                       \cup C9_Insertions(before.displayValue, ",", offsets)

C10_IntegerHasNoSeparator ==
  (LastInput /\ props.type = "integer") =>
    /\ \A i \in 1..Len(LastSanitized.cleaned) : LastSanitized.cleaned[i] # "."
    /\ LastAccepted => \A i \in 1..Len(displayValue) : displayValue[i] # "."

\* An integer field took a raw text with two separators and shows its digits.
C10_Witness ==
  /\ LastAccepted /\ props.type = "integer"
  /\ lastEvent.raw = <<".", "1", ".", "1">>
  /\ displayValue = <<"1", "1">>

\* C14 as stated: at most one animation-frame request is pending at any
\* moment, and none is pending once the component is unmounted.
C14_OneRequestNoneAfterUnmount ==
  /\ Cardinality(frames) <= 1
  /\ phase = "unmounted" => frames = {}

\* A caret fix-up is among the pending nextTick callbacks.
C15_CaretFixPending == \E i \in 1..Len(ticks) : ticks[i].kind = "caret"

\* C15, the state part: while the component is mounted, a pending caret
\* fix-up is the only pending callback, it is the one of the input event
\* that ran last, that event was accepted and displayValue is the display it
\* produced; no caret fix-up is pending after a rejected input event.
C15_FixUpBelongsToLastInput ==
  /\ (C15_CaretFixPending /\ phase = "mounted") =>
       /\ LastAccepted
       /\ ticks = <<CaretTick(before.displayValue, lastEvent.cursorPos)>>
       /\ displayValue = FormatFromCleaned(LastSanitized.cleaned)
  /\ (LastInput /\ ~LastAccepted) => ~C15_CaretFixPending

\* C15, the step part: the step that runs a pending caret fix-up of a
\* mounted component puts the caret where the scan of the display of that
\* input event ends.
C15_FixUpScansProducedDisplay ==
  (C15_CaretFixPending /\ phase = "mounted" /\ ticks' = <<>>) =>
    selection' = NewCursorPos(before.displayValue, lastEvent.cursorPos,
                              FormatFromCleaned(LastSanitized.cleaned))

\* C15: the caret fix-up an accepted input event schedules runs on the
\* display that event produced, before any other input, blur or
\* external-value event; a rejected input event schedules none.
C15_CaretFixUpOrdering ==
  /\ []C15_FixUpBelongsToLastInput
  /\ [][C15_FixUpScansProducedDisplay]_vars

\* The caret fix-up of an edit that got a grouping space is pending: the
\* display differs from the text the edit found and from the raw text.
C15_Witness ==
  /\ C15_CaretFixPending /\ phase = "mounted"
  /\ displayValue = <<"1", " ", "1", "1", "1">>
  /\ before.displayValue # displayValue
  /\ lastEvent.raw # displayValue

\* C16: a raised error flag implies the focus flag, and the error flag is
\* never raised when neither max nor maxLength is configured.
C16_ThreeStates ==
  /\ hasError => isFocused
  /\ (~props.maxDefined /\ ~props.maxLengthDefined) => ~hasError

\* A focused field with a limit has its error flag raised by an input event.
C16_Witness ==
  /\ LastInput /\ hasError /\ isFocused /\ ~before.hasError
  /\ (props.maxDefined \/ props.maxLengthDefined)

\* The number of digit characters of a text.
C17_DigitCount(s) == Cardinality({i \in 1..Len(s) : s[i] \in Digits})

\* C17 as stated: with max configured every emitted value is null or at
\* most max; with maxLength configured the display of every accepted edit
\* has at most maxLength digits; an input event whose cleaned text is empty
\* or a bare separator emits null and leaves the error flag clear.
C17_PayloadWithinLimit ==
  /\ props.maxDefined =>
       \A i \in 1..Len(emitted) :
         emitted[i] = Null \/ (emitted[i].kind = "num" /\ ~GreaterThan(emitted[i], props.max))
  /\ (props.maxLengthDefined /\ LastInput /\ Len(emitted) = 1) =>
       C17_DigitCount(displayValue) <= props.maxLength
  /\ (LastInput /\ LastSanitized.cleaned \in {<<>>, <<".">>}) =>
       emitted = <<Null>> /\ ~hasError

\* C17 amended: with max configured every emitted value is null or at most
\* max; with maxLength configured and max not configured the display of
\* every accepted edit has at most maxLength digits; in a field that is not
\* disabled an input event whose cleaned text is empty or a bare separator
\* emits null and leaves the error flag clear.
C17_PayloadWithinLimitInForce ==
  /\ props.maxDefined =>
       \A i \in 1..Len(emitted) :
         emitted[i] = Null
         \/ (emitted[i].kind = "num"
             /\ (emitted[i].int < props.max
                 \/ (emitted[i].int = props.max /\ emitted[i].frac = <<>>)))
  /\ (props.maxLengthDefined /\ ~props.maxDefined /\ LastInput /\ Len(emitted) = 1) =>
       C17_DigitCount(displayValue) <= props.maxLength
  /\ (LastInput /\ ~props.disabled /\ LastSanitized.cleaned \in {<<>>, <<".">>}) =>
       emitted = <<Null>> /\ ~hasError

\* A field with max configured emitted max itself, and the edit before it
\* had been rejected.
C17_Witness ==
  /\ LastInput /\ props.maxDefined /\ ~props.maxLengthDefined
  /\ emitted = <<Num(props.max, <<>>)>>
  /\ before.hasError /\ ~hasError

\* The step is the handler of an event of the given kind.
C20_Handles(kind) == ~checkpoint /\ checkpoint' /\ lastEvent'.kind = kind

\* C20, the step: in a disabled field an input event changes none of
\* displayValue, hasError, isFocused, the animation-frame requests and the
\* nextTick callbacks and emits nothing, and a keydown is prevented and
\* leaves hasError as it was.
C20_DisabledStep ==
  /\ (props.disabled /\ C20_Handles("input")) =>
       /\ UNCHANGED <<displayValue, hasError, isFocused, widthRaf, frames, ticks>>
       /\ emitted' = <<>>
  /\ (props.disabled /\ C20_Handles("keydown")) =>
       /\ prevented'
       /\ UNCHANGED hasError

\* C20: while disabled is set, every input event leaves the display, the
\* error flag and the focus flag unchanged, emits nothing and schedules
\* neither a width measurement nor a caret fix-up, and every keydown is
\* prevented without changing the error flag.
C20_DisabledIsInert == [][C20_DisabledStep]_vars

\* A disabled field with its error flag raised got an input event with a
\* text other than the one it shows, and nothing changed.
C20_Witness ==
  /\ LastInput /\ props.disabled
  /\ lastEvent.raw # before.displayValue
  /\ Sanitize(lastEvent.raw).cleaned # <<>>
  /\ displayValue = before.displayValue
  /\ before.hasError /\ hasError
  /\ emitted = <<>> /\ ticks = <<>>

\* The characters of section 8's example, in the order they are typed.
C11_Script == <<"1", "2", "3", "4", "5", "6", "7", ".">>

\* The last handler was the input event of typing the k-th character of the
\* example at the end of a text that held the k - 1 characters before it, in
\* a decimal field with maxDecimals = 2 and no limit.
C11_Typed(k) ==
  /\ LastInput
  /\ props.type = "decimal" /\ props.maxDecimals = 2
  /\ ~props.maxDefined /\ ~props.maxLengthDefined
  /\ SelectSeq(before.displayValue, LAMBDA ch : ch # " ") = SubSeq(C11_Script, 1, k - 1)
  /\ lastEvent.raw = Append(before.displayValue, C11_Script[k])
  /\ lastEvent.cursorPos = Len(lastEvent.raw)

\* C11: typing 1234567 one character at a time at the end of an empty
\* decimal field shows, after each digit, the digits so far grouped by
\* threes and emits their value, so "1 234 567" and 1234567 after the 7;
\* the '.' typed next shows "1 234 567." and emits 1234567 again.
C11_TypingExample ==
  /\ \A k \in 1..7 :
       C11_Typed(k) =>
         /\ displayValue = C7_Grouped(SubSeq(C11_Script, 1, k))
         /\ emitted = <<Num(DigitsToNat(SubSeq(C11_Script, 1, k)), <<>>)>>
  /\ C11_Typed(7) =>
       /\ displayValue = <<"1", " ", "2", "3", "4", " ", "5", "6", "7">>
       /\ emitted = <<Num(1234567, <<>>)>>
  /\ C11_Typed(8) =>
       /\ displayValue = <<"1", " ", "2", "3", "4", " ", "5", "6", "7", ".">>
       /\ emitted = <<Num(1234567, <<>>)>>

\* The '.' was typed after 1234567 and its microtasks have run.
C11_Witness ==
  /\ C11_Typed(8)
  /\ ~MicrotaskPending
  /\ inputText = <<"1", " ", "2", "3", "4", " ", "5", "6", "7", ".">>
  /\ emitted = <<Num(1234567, <<>>)>>

\* The number of non-space characters among the first p of s.
C12_NonSpaceLeft(s, p) == Cardinality({i \in 1..Len(s) : i <= p /\ s[i] # " "})

\* C12 as stated, for the edits that lose no character to sanitizing: once
\* the microtasks of an accepted edit have run, as many non-space characters
\* are left of the caret in the display as were left of the caret in the
\* edited text.
C12_CaretKeepsLogicalPlace ==
  (/\ LastAccepted /\ phase = "mounted" /\ ~MicrotaskPending
   /\ LastSanitized.cleaned = SelectSeq(lastEvent.raw, LAMBDA ch : ch # " ")) =>
    C12_NonSpaceLeft(displayValue, selection)
      = C12_NonSpaceLeft(lastEvent.raw, lastEvent.cursorPos)

\* The edit of section 8's caret example has run with its microtasks: the
\* edited text is "1234", the caret was after its 2nd digit, the display is
\* "1 234".
C13_Case ==
  /\ LastAccepted /\ phase = "mounted" /\ ~MicrotaskPending
  /\ lastEvent.raw = <<"1", "2", "3", "4">>
  /\ lastEvent.cursorPos = 2
  /\ displayValue = <<"1", " ", "2", "3", "4">>

\* C13 as stated: the caret lands at offset 2.
C13_CaretAtOffsetTwo == C13_Case => selection = 2

\* C13 amended: the caret lands at offset 3, right after the 2nd digit,
\* the inserted space being to its left.
C13_CaretAfterSecondDigit ==
  C13_Case =>
    /\ selection = 3
    /\ SubSeq(displayValue, 1, selection) = <<"1", " ", "2">>

\* The 2 was typed between the 1 and the 3 of "134".
C13_Witness ==
  /\ C13_Case
  /\ before.displayValue = <<"1", "3", "4">>
  /\ selection = 3

\* C18 as stated: once the watcher has run, the text of a blurred field
\* parses to the bound model value.
C18_BlurredDisplayIsModelValue ==
  (phase = "mounted" /\ ~isFocused /\ ~MicrotaskPending) =>
    ParseDisplay(displayValue) = props.modelValue

\* The last handler was an input event of an enabled field whose raw text is
\* the text shown before with one digit removed.
C19_DigitDeleted ==
  /\ LastInput /\ ~props.disabled
  /\ \E p \in 1..Len(before.displayValue) :
       /\ before.displayValue[p] \in Digits
       /\ lastEvent.raw = SubSeq(before.displayValue, 1, p - 1)
                            \o SubSeq(before.displayValue, p + 1, Len(before.displayValue))

\* C19 as stated, for the deletion of a digit: the edit is accepted, it
\* emits and leaves the error flag clear.
C19_DeletionAccepted == C19_DigitDeleted => (Len(emitted) = 1 /\ ~hasError)

====
